---- MODULE Spec2Model ----
(***************************************************************************)
(* A model of hashiconf-raft: one integer replicated through a Raft log.   *)
(*                                                                         *)
(*   fsm.go        the replicated state machine (Apply, Snapshot, Restore) *)
(*   part_001      fsmSnapshot (Persist, Release)                          *)
(*   part_000      the HTTP control plane (ServeHTTP and its handlers)     *)
(*   part_002      main (the join goroutine) and NewNode                   *)
(*   config.go     resolveConfig                                           *)
(*                                                                         *)
(* The Raft library itself is an external collaborator: it is modelled by  *)
(* the calls it makes into this code (Apply / Snapshot / Persist /         *)
(* Restore) and by the futures it hands back to the handlers.              *)
(***************************************************************************)
EXTENDS Integers, Sequences, FiniteSets, TLC

\* ------------------------------------------------------------------ bounds

\* Integers the cluster may agree on are drawn from 0..MaxValue.
MaxValue == 1

\* The replicated log holds at most MaxLog committed entries.
MaxLog == 2

\* At most MaxReqs HTTP requests are being served at once.
MaxReqs == 2

\* Join requests are counted up to MaxAttempts; the loop itself has no cap.
MaxAttempts == 3

\* At most MaxSnaps snapshot handles are taken in one run.
MaxSnaps == 1

\* The engine restores a state machine at most MaxRestores times in one run.
MaxRestores == 2

Values == 0..MaxValue

\* Two independent state machines fed by the same agreed log.
Inst == {1, 2}

VARIABLES
    stateValue,   \* fsm.stateValue, per state machine
    mutexLocked,  \* fsm.mutex, per state machine
    applyPc,      \* where the commit-apply thread stands inside fsm.Apply
    snapPc,       \* where the snapshot thread stands inside fsm.Snapshot
    halted,       \* the process died of a panic
    lastApplied,  \* index of the last log entry fsm.Apply returned for
    raftLog,      \* the committed entries (raft.Log.Data), in agreed order
    snaps,        \* the fsmSnapshot handles taken, each with its sink
    restoreInfo,  \* what the last fsm.Restore on a state machine did
    reqs,         \* the HTTP requests being served, one per handler goroutine
    voters,       \* the engine's voting members (raft.ServerID)
    leader,       \* whether the engine of this node leads the cluster
    rawConfig,    \* the RawConfig that readRawConfig built from the flags
    workDir,      \* the working directory of the process ("" when it has none)
    configErrors, \* the ConfigurationPoint of every error resolveConfig found
    config,       \* the Config that resolveConfig returned to main
    mainPc,       \* where func main stands
    joinPc,       \* where the join goroutine stands
    joinAttempts, \* how many join requests it has sent (counted up to a cap)
    joinLast      \* the last join request it sent and how that ended

fsmVars == <<stateValue, mutexLocked, applyPc, snapPc, halted, lastApplied,
             raftLog, snaps, restoreInfo>>

httpVars == <<reqs, voters, leader>>

mainVars == <<rawConfig, workDir, configErrors, config, mainPc, joinPc, joinAttempts,
             joinLast>>

vars == <<stateValue, mutexLocked, applyPc, snapPc, halted, lastApplied,
          raftLog, snaps, restoreInfo, reqs, voters, leader,
          rawConfig, workDir, configErrors, config, mainPc, joinPc,
          joinAttempts, joinLast>>

\* ------------------------------------------------------- encoding/json

\* The bytes of a log entry.  A well formed payload is a JSON object whose
\* members Type and Value fill the exported fields of `event`.
EventBytes(t, v) == [wellFormed |-> TRUE, Type |-> t, Value |-> v]

GarbageBytes == [wellFormed |-> FALSE, Type |-> "", Value |-> 0]

\* What the consensus engine may deliver: "set" entries, an entry of a type
\* this code does not know, and a payload that is not JSON.
EntryData ==
    {EventBytes("set", v) : v \in Values}
        \cup {EventBytes("delete", 0), GarbageBytes}

\* json.Marshal(event): both fields of event are exported.
MarshalEvent(e) == EventBytes(e.Type, e.Value)

\* json.Unmarshal(logEntry.Data, &e)
UnmarshalEvent(data) ==
    IF data.wellFormed
    THEN [err |-> FALSE, e |-> [Type |-> data.Type, Value |-> data.Value]]
    ELSE [err |-> TRUE, e |-> [Type |-> "", Value |-> 0]]

\* type fsmSnapshot struct { stateValue int `json:"value"` }: the one field
\* starts with a lower-case letter, so it is not exported and encoding/json
\* neither writes nor reads it, whatever its tag says.
fsmSnapshotFields ==
    {[name |-> "stateValue", key |-> "value", exported |-> FALSE]}

\* json.Marshal(f) for an fsmSnapshot f: a JSON object holding one member per
\* exported field.
MarshalSnapshot(f) ==
    [wellFormed |-> TRUE,
     members |-> {<<fd.key, f[fd.name]>> :
                     fd \in {x \in fsmSnapshotFields : x.exported}}]

\* A sink holding bytes that do not parse (a torn write, a corrupt file).
GarbageSnapshotBytes == [wellFormed |-> FALSE, members |-> {}]

\* json.NewDecoder(serialized).Decode(&snapshot): exported fields are filled
\* from the members that name them, every other field keeps its zero value.
DecodeSnapshot(bytes) ==
    IF ~bytes.wellFormed
    THEN [err |-> TRUE, snapshot |-> [stateValue |-> 0]]
    ELSE LET hit == {m \in bytes.members :
                        \E fd \in fsmSnapshotFields :
                            fd.exported /\ fd.key = m[1] /\ fd.name = "stateValue"}
         IN  [err |-> FALSE,
              snapshot |-> [stateValue |->
                  IF hit = {} THEN 0 ELSE (CHOOSE m \in hit : TRUE)[2]]]

\* ------------------------------------------------------------ fsm.go

\* No fsm.Restore has run yet.
NoRestore == [calls |-> 0, snap |-> 0, err |-> FALSE]

\* &fsm{stateValue: 0} in NewNode, before the engine has delivered anything.
InitFsmVars ==
    /\ stateValue = [i \in Inst |-> 0]
    /\ mutexLocked = [i \in Inst |-> FALSE]
    /\ applyPc = [i \in Inst |-> "idle"]
    /\ snapPc = [i \in Inst |-> "idle"]
    /\ halted = [i \in Inst |-> FALSE]
    /\ lastApplied = [i \in Inst |-> 0]
    /\ raftLog = <<>>
    /\ snaps = <<>>
    /\ restoreInfo = [i \in Inst |-> NoRestore]

\* The entry the engine hands to fsm.Apply next.
NextEntry(i) == raftLog[lastApplied[i] + 1]

HasNextEntry(i) ==
    /\ ~halted[i]
    /\ applyPc[i] = "idle"
    /\ lastApplied[i] < Len(raftLog)

\* A faulty Apply that logs the entry it cannot use and goes on to the next.
ApplyPanic_Skip(i) ==
    /\ HasNextEntry(i)
    /\ LET u == UnmarshalEvent(NextEntry(i))
       IN  u.err \/ u.e.Type # "set"
    /\ lastApplied' = [lastApplied EXCEPT ![i] = @ + 1]
    /\ UNCHANGED <<stateValue, mutexLocked, applyPc, snapPc, halted,
                   raftLog, snaps, restoreInfo>>
    /\ UNCHANGED httpVars
    /\ UNCHANGED mainVars

\* fsm.Apply, lines 24-27 and 36-37: the payload does not unmarshal, or its
\* type is not "set": panic.  An unrecovered panic ends the process.
ApplyPanic(i) ==
    /\ HasNextEntry(i)
    /\ LET u == UnmarshalEvent(NextEntry(i))
       IN  u.err \/ u.e.Type # "set"
    /\ halted' = [halted EXCEPT ![i] = TRUE]
    /\ UNCHANGED <<stateValue, mutexLocked, applyPc, snapPc, lastApplied,
                   raftLog, snaps, restoreInfo>>
    /\ UNCHANGED httpVars
    /\ UNCHANGED mainVars

\* A faulty Apply that uses TryLock and drops the entry when the lock is taken.
ApplyLock_TryLock(i) ==
    /\ HasNextEntry(i)
    /\ LET u == UnmarshalEvent(NextEntry(i))
       IN  ~u.err /\ u.e.Type = "set"
    /\ IF mutexLocked[i]
       THEN /\ lastApplied' = [lastApplied EXCEPT ![i] = @ + 1]
            /\ UNCHANGED <<mutexLocked, applyPc>>
       ELSE /\ mutexLocked' = [mutexLocked EXCEPT ![i] = TRUE]
            /\ applyPc' = [applyPc EXCEPT ![i] = "locked"]
            /\ UNCHANGED lastApplied
    /\ UNCHANGED <<stateValue, snapPc, halted, raftLog, snaps, restoreInfo>>
    /\ UNCHANGED httpVars
    /\ UNCHANGED mainVars

\* fsm.Apply, lines 30-31: case "set": fsm.mutex.Lock()
ApplyLock(i) ==
    /\ HasNextEntry(i)
    /\ LET u == UnmarshalEvent(NextEntry(i))
       IN  ~u.err /\ u.e.Type = "set"
    /\ ~mutexLocked[i]
    /\ mutexLocked' = [mutexLocked EXCEPT ![i] = TRUE]
    /\ applyPc' = [applyPc EXCEPT ![i] = "locked"]
    /\ UNCHANGED <<stateValue, snapPc, halted, lastApplied, raftLog, snaps,
                   restoreInfo>>
    /\ UNCHANGED httpVars
    /\ UNCHANGED mainVars

\* fsm.Apply, line 33: fsm.stateValue = e.Value
ApplyStore(i) ==
    /\ ~halted[i]
    /\ applyPc[i] = "locked"
    /\ stateValue' =
           [stateValue EXCEPT ![i] = UnmarshalEvent(NextEntry(i)).e.Value]
    /\ applyPc' = [applyPc EXCEPT ![i] = "stored"]
    /\ UNCHANGED <<mutexLocked, snapPc, halted, lastApplied, raftLog, snaps,
                   restoreInfo>>
    /\ UNCHANGED httpVars
    /\ UNCHANGED mainVars

\* A faulty Apply that returns without unlocking (no deferred Unlock).
ApplyReturn_NoUnlock(i) ==
    /\ ~halted[i]
    /\ applyPc[i] = "stored"
    /\ applyPc' = [applyPc EXCEPT ![i] = "idle"]
    /\ lastApplied' = [lastApplied EXCEPT ![i] = @ + 1]
    /\ UNCHANGED <<stateValue, mutexLocked, snapPc, halted, raftLog, snaps,
                   restoreInfo>>
    /\ UNCHANGED httpVars
    /\ UNCHANGED mainVars

\* fsm.Apply, lines 32 and 35: return nil, running the deferred Unlock; the
\* engine then counts the entry as applied.
ApplyReturn(i) ==
    /\ ~halted[i]
    /\ applyPc[i] = "stored"
    /\ mutexLocked' = [mutexLocked EXCEPT ![i] = FALSE]
    /\ applyPc' = [applyPc EXCEPT ![i] = "idle"]
    /\ lastApplied' = [lastApplied EXCEPT ![i] = @ + 1]
    /\ UNCHANGED <<stateValue, snapPc, halted, raftLog, snaps, restoreInfo>>
    /\ UNCHANGED httpVars
    /\ UNCHANGED mainVars

Apply(i) == ApplyPanic(i) \/ ApplyLock(i) \/ ApplyStore(i) \/ ApplyReturn(i)

\* fsm.Snapshot, line 42: fsm.mutex.Lock()
SnapshotLock(i) ==
    /\ ~halted[i]
    /\ snapPc[i] = "idle"
    /\ Len(snaps) + Cardinality({j \in Inst : snapPc[j] = "locked"}) < MaxSnaps
    /\ ~mutexLocked[i]
    /\ mutexLocked' = [mutexLocked EXCEPT ![i] = TRUE]
    /\ snapPc' = [snapPc EXCEPT ![i] = "locked"]
    /\ UNCHANGED <<stateValue, applyPc, halted, lastApplied, raftLog, snaps,
                   restoreInfo>>
    /\ UNCHANGED httpVars
    /\ UNCHANGED mainVars

\* A raft.SnapshotSink nothing has been written to.
EmptySink ==
    [written |-> "none", data |-> GarbageSnapshotBytes, closed |-> FALSE,
     closeCalls |-> 0, cancelCalls |-> 0]

\* fsm.Snapshot, lines 43-45: return &fsmSnapshot{stateValue: fsm.stateValue}
\* and run the deferred Unlock.  The engine notes the log position the
\* snapshot stands for and will hand the handle a sink of its own.
SnapshotReturn(i) ==
    /\ ~halted[i]
    /\ snapPc[i] = "locked"
    /\ snaps' = Append(snaps,
           [node |-> i, f |-> [stateValue |-> stateValue[i]],
            index |-> lastApplied[i], persist |-> "none", sink |-> EmptySink])
    /\ mutexLocked' = [mutexLocked EXCEPT ![i] = FALSE]
    /\ snapPc' = [snapPc EXCEPT ![i] = "idle"]
    /\ UNCHANGED <<stateValue, applyPc, halted, lastApplied, raftLog,
                   restoreInfo>>
    /\ UNCHANGED httpVars
    /\ UNCHANGED mainVars

Snapshot(i) == SnapshotLock(i) \/ SnapshotReturn(i)

\* ---------------------------------------------------------- fsmSnapshot

\* sink.Write(snapshotBytes): all the bytes, or an error with the sink torn.
SinkWrite(sink, bytes, ok) ==
    IF ok
    THEN [sink EXCEPT !.written = "full", !.data = bytes]
    ELSE [sink EXCEPT !.written = "partial", !.data = GarbageSnapshotBytes]

\* sink.Close(): finalises the snapshot, or fails and leaves it unfinished.
SinkClose(sink, ok) == [sink EXCEPT !.closeCalls = @ + 1, !.closed = ok]

\* sink.Cancel(): the snapshot is discarded.
SinkCancel(sink) == [sink EXCEPT !.cancelCalls = @ + 1]

\* fsmSnapshot.Persist, lines 14-29: the inner function.  Marshal, then Write,
\* then Close, returning at the first error.
PersistInner(f, sink, marshalOk, writeOk, closeOk) ==
    IF ~marshalOk
    THEN [sink |-> sink, err |-> TRUE]
    ELSE LET w == SinkWrite(sink, MarshalSnapshot(f), writeOk)
         IN  IF ~writeOk
             THEN [sink |-> w, err |-> TRUE]
             ELSE [sink |-> SinkClose(w, closeOk), err |-> ~closeOk]

\* A faulty Persist that returns the error but leaves the sink as it is.
PersistResult_NoCancel(f, sink, marshalOk, writeOk, closeOk) ==
    LET r == PersistInner(f, sink, marshalOk, writeOk, closeOk)
    IN  [sink |-> r.sink, err |-> r.err]

\* fsmSnapshot.Persist, lines 31-36: on an error cancel the sink and return
\* the error.
PersistResult(f, sink, marshalOk, writeOk, closeOk) ==
    LET r == PersistInner(f, sink, marshalOk, writeOk, closeOk)
    IN  IF r.err
        THEN [sink |-> SinkCancel(r.sink), err |-> TRUE]
        ELSE [sink |-> r.sink, err |-> FALSE]

\* The engine calls Persist once on a handle, from a thread of its own.
\* json.Marshal of a struct of one int cannot fail; Write and Close can.
Persist(k, writeOk, closeOk) ==
    /\ k \in 1..Len(snaps)
    /\ ~halted[snaps[k].node]
    /\ snaps[k].persist = "none"
    /\ LET r == PersistResult(snaps[k].f, snaps[k].sink, TRUE, writeOk, closeOk)
       IN  snaps' = [snaps EXCEPT ![k].sink = r.sink,
                                  ![k].persist = IF r.err THEN "err" ELSE "ok"]
    /\ UNCHANGED <<stateValue, mutexLocked, applyPc, snapPc, halted,
                   lastApplied, raftLog, restoreInfo>>
    /\ UNCHANGED httpVars
    /\ UNCHANGED mainVars

\* ------------------------------------------------------------ fsm.Restore

\* fsm.Restore: decode the snapshot; on an error return it, else overwrite
\* fsm.stateValue (no lock is taken).  The engine calls it, never during an
\* Apply or a Snapshot, with the bytes of a snapshot whose sink was closed
\* and not cancelled, and resumes applying after the snapshot's position.
Restore(i, k, bytes) ==
    /\ ~halted[i]
    /\ applyPc[i] = "idle"
    /\ snapPc[i] = "idle"
    /\ k \in 1..Len(snaps)
    /\ snaps[k].persist = "ok"
    /\ snaps[k].index >= lastApplied[i]
    /\ restoreInfo[i].calls < MaxRestores
    /\ LET d == DecodeSnapshot(bytes)
       IN  /\ stateValue' = IF d.err THEN stateValue
                            ELSE [stateValue EXCEPT ![i] = d.snapshot.stateValue]
           /\ lastApplied' = IF d.err THEN lastApplied
                             ELSE [lastApplied EXCEPT ![i] = snaps[k].index]
           /\ restoreInfo' = [restoreInfo EXCEPT ![i] =
                  [calls |-> @.calls + 1, snap |-> k, err |-> d.err]]
    /\ UNCHANGED <<mutexLocked, applyPc, snapPc, halted, raftLog, snaps>>
    /\ UNCHANGED httpVars
    /\ UNCHANGED mainVars

\* ------------------------------------------------------------ config.go

\* The largest port number resolveConfig lets through (lines 65 and 80).
PortLimit == 65536

\* Bind addresses: an IP literal, a go-sockaddr template that evaluates to an
\* IP, a template that does not parse, and a host name.
PrivateIPTemplate == "{{ GetPrivateIP }}"

MalformedTemplate == "{{ GetPrivateIP"

BindAddresses == {"127.0.0.1", PrivateIPTemplate, MalformedTemplate, "localhost"}

\* template.Parse: text with no template action comes back as it is, a
\* template is evaluated, a malformed template is an error.
TemplateParse(s) ==
    IF s = MalformedTemplate THEN [err |-> TRUE, out |-> ""]
    ELSE IF s = PrivateIPTemplate THEN [err |-> FALSE, out |-> "10.0.0.5"]
    ELSE [err |-> FALSE, out |-> s]

\* net.ParseIP: the address, or nil for text that is not an IP address.
NilIP == "<nil>"

ParseIP(s) == IF s \in {"127.0.0.1", "10.0.0.5"} THEN s ELSE NilIP

\* Port flags are Go ints: values around both ends of the port range.
PortFlags == {-1, 0, 1, 7000, 65535, 65536, 65537}

\* Paths, kept as their elements: an absolute path starts at the root.
DefaultDataDir == <<"/", "home", "raft", "raft">>

DataDirs == {DefaultDataDir, <<"node1">>}

\* os.Getwd: a directory, or an error (the directory was removed).
NoWorkDir == <<>>

WorkDirs == {<<"/", "home", "raft">>, NoWorkDir}

\* filepath.IsAbs
IsAbs(path) == Len(path) > 0 /\ path[1] = "/"

\* filepath.Abs: an absolute path is returned cleaned; a relative one is
\* joined to the working directory, and is an error when os.Getwd fails.
FilepathAbs(path, wd) ==
    IF IsAbs(path) THEN [err |-> FALSE, out |-> path]
    ELSE IF wd = NoWorkDir THEN [err |-> TRUE, out |-> <<>>]
    ELSE [err |-> FALSE, out |-> wd \o path]

RawConfigs ==
    [BindAddress : BindAddresses, JoinAddress : {"", "127.0.0.1:8000"},
     RaftPort : PortFlags, HTTPPort : PortFlags, DataDir : DataDirs,
     Bootstrap : BOOLEAN]

\* readRawConfig: the flags' defaults, with --bootstrap and --join as given.
DefaultRawConfig(b, j) ==
    [BindAddress |-> "127.0.0.1", JoinAddress |-> j, RaftPort |-> 7000,
     HTTPPort |-> 8000, DataDir |-> DefaultDataDir, Bootstrap |-> b]

\* The nil *Config that resolveConfig returns with an error.
NilConfig == [isNil |-> TRUE]

\* resolveConfig: every check appends its ConfigError to the multierror, and
\* the Config is built only when there is none.
resolveConfig(raw, wd) ==
    LET t == TemplateParse(raw.BindAddress)
        bindAddr == IF t.err THEN NilIP ELSE ParseIP(t.out)
        e1 == IF t.err \/ bindAddr = NilIP THEN <<"bind-address">> ELSE <<>>
        e2 == IF raw.RaftPort < 1 \/ raw.RaftPort > PortLimit
              THEN <<"raft-port">> ELSE <<>>
        e3 == IF raw.HTTPPort < 1 \/ raw.HTTPPort > PortLimit
              THEN <<"http-port">> ELSE <<>>
        d == FilepathAbs(raw.DataDir, wd)
        e4 == IF d.err THEN <<"data-dir">> ELSE <<>>
        errors == e1 \o e2 \o e3 \o e4
    IN  IF errors # <<>>
        THEN [config |-> NilConfig, errors |-> errors]
        ELSE [config |->
                 [isNil |-> FALSE,
                  DataDir |-> d.out,
                  JoinAddress |-> raw.JoinAddress,
                  RaftAddress |-> [IP |-> bindAddr, Port |-> raw.RaftPort],
                  HTTPAddress |-> [IP |-> bindAddr, Port |-> raw.HTTPPort],
                  Bootstrap |-> raw.Bootstrap],
              errors |-> <<>>]

\* -------------------------------------------------------------- main

\* config.RaftAddress of this node and of a node that asks to join it, and
\* the HTTP address of the cluster member a joining node is pointed at.
SelfAddr == "127.0.0.1:7000"

PeerAddr == "127.0.0.1:7001"

SeedHttpAddr == "127.0.0.1:8000"

\* The configurations main may be started with (--bootstrap, --join).
Configs ==
    {[Bootstrap |-> b, JoinAddress |-> j, RaftAddress |-> SelfAddr] :
        b \in BOOLEAN, j \in {"", SeedHttpAddr}}

NoJoinRequest == [sent |-> FALSE, host |-> "", path |-> "", header |-> "",
                  outcome |-> "none"]

\* What one join request may end in: no response at all (http.Client.Do
\* returns an error), or the status of the response.
JoinOutcomes == {"neterr", "200", "400", "500"}

\* main has built the node (line 31) and goes on to line 37.
InitMain ==
    /\ config \in Configs
    /\ rawConfig = DefaultRawConfig(config.Bootstrap, config.JoinAddress)
    /\ workDir \in WorkDirs \ {NoWorkDir}
    /\ configErrors = <<>>
    /\ mainPc = "start"
    /\ joinPc = "none"
    /\ joinAttempts = 0
    /\ joinLast = NoJoinRequest

\* A bootstrap node whose server is up; it has no join target.
InitMainServing ==
    /\ config = [Bootstrap |-> TRUE, JoinAddress |-> "", RaftAddress |-> SelfAddr]
    /\ rawConfig = DefaultRawConfig(TRUE, "")
    /\ workDir \in WorkDirs \ {NoWorkDir}
    /\ configErrors = <<>>
    /\ mainPc = "serving"
    /\ joinPc = "none"
    /\ joinAttempts = 0
    /\ joinLast = NoJoinRequest

\* main is entered: the flags have been read, nothing is resolved yet.
InitMainResolve ==
    /\ rawConfig \in RawConfigs
    /\ workDir \in WorkDirs
    /\ configErrors = <<>>
    /\ config = NilConfig
    /\ mainPc = "resolve"
    /\ joinPc = "none"
    /\ joinAttempts = 0
    /\ joinLast = NoJoinRequest

\* main, lines 23-28: resolveConfig; on an error print it and os.Exit(1).
MainResolve ==
    /\ mainPc = "resolve"
    /\ LET r == resolveConfig(rawConfig, workDir)
       IN  /\ config' = r.config
           /\ configErrors' = r.errors
           /\ mainPc' = IF r.errors # <<>> THEN "exited" ELSE "resolved"
    /\ UNCHANGED <<rawConfig, workDir, joinPc, joinAttempts, joinLast>>
    /\ UNCHANGED fsmVars
    /\ UNCHANGED httpVars

\* net.ResolveTCPAddr("tcp", addr.String()) in raftTransport: a port above
\* 65535 is not a TCP port.
ResolveTCPAddrFails(addr) == addr.Port > 65535

\* main, lines 30-35: NewNode makes the data directory, the transport and the
\* stores, any of which may fail; on an error print it and os.Exit(1).
MainNewNode(ok) ==
    /\ mainPc = "resolved"
    /\ ok => ~ResolveTCPAddrFails(config.RaftAddress)
    /\ mainPc' = IF ok THEN "start" ELSE "exited"
    /\ UNCHANGED <<rawConfig, workDir, configErrors, config,
                   joinPc, joinAttempts, joinLast>>
    /\ UNCHANGED fsmVars
    /\ UNCHANGED httpVars

\* main, lines 37-38 and 73: with a join target, start the join goroutine.
MainStartJoin ==
    /\ mainPc = "start"
    /\ mainPc' = "joinStarted"
    /\ joinPc' = IF config.JoinAddress # "" THEN "request" ELSE "none"
    /\ UNCHANGED <<rawConfig, workDir, configErrors, config,
                   joinAttempts, joinLast>>
    /\ UNCHANGED fsmVars
    /\ UNCHANGED httpVars

\* main, lines 75-82, and Start up to ListenAndServe: the server listens.
MainServe ==
    /\ mainPc = "joinStarted"
    /\ mainPc' = "serving"
    /\ UNCHANGED <<rawConfig, workDir, configErrors, config,
                   joinPc, joinAttempts, joinLast>>
    /\ UNCHANGED fsmVars
    /\ UNCHANGED httpVars

\* Start, lines 41-43: ListenAndServe returns an error, logger.Fatal ends the
\* process and every goroutine with it.
ServerFatal ==
    /\ mainPc \in {"joinStarted", "serving"}
    /\ mainPc' = "exited"
    /\ UNCHANGED <<rawConfig, workDir, configErrors, config,
                   joinPc, joinAttempts, joinLast>>
    /\ UNCHANGED fsmVars
    /\ UNCHANGED httpVars

Running == mainPc # "exited"

Bump(n) == IF n < MaxAttempts THEN n + 1 ELSE n

\* A faulty join loop with no break: it sleeps and asks again after a 200.
JoinAttempt_NoBreak(outcome) ==
    /\ Running
    /\ joinPc = "request"
    /\ joinAttempts' = Bump(joinAttempts)
    /\ joinLast' = [sent |-> TRUE, host |-> config.JoinAddress,
                    path |-> "/join", header |-> config.RaftAddress,
                    outcome |-> outcome]
    /\ joinPc' = "sleep"
    /\ UNCHANGED <<rawConfig, workDir, configErrors, config,
                   mainPc>>
    /\ UNCHANGED fsmVars
    /\ UNCHANGED httpVars

\* A faulty join loop that gives up after its second failed request.
JoinAttempt_GiveUp(outcome) ==
    /\ Running
    /\ joinPc = "request"
    /\ joinAttempts' = Bump(joinAttempts)
    /\ joinLast' = [sent |-> TRUE, host |-> config.JoinAddress,
                    path |-> "/join", header |-> config.RaftAddress,
                    outcome |-> outcome]
    /\ joinPc' = IF outcome # "200" /\ joinAttempts < 1 THEN "sleep" ELSE "done"
    /\ UNCHANGED <<rawConfig, workDir, configErrors, config,
                   mainPc>>
    /\ UNCHANGED fsmVars
    /\ UNCHANGED httpVars

\* retryJoin and the loop around it, lines 39-70: POST http://<join>/join with
\* this node's Raft address in Peer-Address; an error or a status other than
\* 200 is logged and the goroutine goes to sleep, a 200 ends the loop.
JoinAttempt(outcome) ==
    /\ Running
    /\ joinPc = "request"
    /\ joinAttempts' = Bump(joinAttempts)
    /\ joinLast' = [sent |-> TRUE, host |-> config.JoinAddress,
                    path |-> "/join", header |-> config.RaftAddress,
                    outcome |-> outcome]
    /\ joinPc' = IF outcome # "200" THEN "sleep" ELSE "done"
    /\ UNCHANGED <<rawConfig, workDir, configErrors, config,
                   mainPc>>
    /\ UNCHANGED fsmVars
    /\ UNCHANGED httpVars

\* line 67: time.Sleep(1 * time.Second) returns and the loop goes round.
JoinBackoff ==
    /\ Running
    /\ joinPc = "sleep"
    /\ joinPc' = "request"
    /\ UNCHANGED <<rawConfig, workDir, configErrors, config,
                   mainPc, joinAttempts, joinLast>>
    /\ UNCHANGED fsmVars
    /\ UNCHANGED httpVars

\* ------------------------------------------------- the HTTP control plane

\* The node whose control plane is modelled.
Self == 1

Reqs == 1..MaxReqs

\* r.URL.Path, kept as its characters so that strings.Contains is computed.
KeyPath == <<"/", "k", "e", "y">>

JoinPath == <<"/", "j", "o", "i", "n">>

KeysPath == <<"/", "k", "e", "y", "s">>

OtherPath == <<"/", "o", "t", "h", "e", "r">>

\* strings.Contains(s, sub)
Contains(s, sub) ==
    \E i \in 0..(Len(s) - Len(sub)) : SubSeq(s, i + 1, i + Len(sub)) = sub

\* A request body, as the JSON decoder sees it: the first JSON value it holds
\* (none: the body is empty or does not start with one; an object with an
\* integer newValue; an object whose newValue is not an integer) and whether
\* more bytes follow that value.
NoJsonBody == [doc |-> "none", newValue |-> 0, trailing |-> FALSE]

MistypedBody == [doc |-> "mistyped", newValue |-> 0, trailing |-> FALSE]

Bodies ==
    {NoJsonBody, MistypedBody}
        \cup {[doc |-> "object", newValue |-> v, trailing |-> t] :
                 v \in Values, t \in BOOLEAN}

\* Whether the body as a whole is one JSON document.
IsValidJSON(body) == body.doc # "none" /\ ~body.trailing

\* json.NewDecoder(r.Body).Decode(&request) reads the first JSON value of the
\* stream and unmarshals it; what follows that value is not read.
DecodeKeyRequest(body) ==
    IF body.doc = "object"
    THEN [err |-> FALSE, request |-> [NewValue |-> body.newValue]]
    ELSE [err |-> TRUE, request |-> [NewValue |-> 0]]

Request(m, pa, h, b) == [method |-> m, path |-> pa, header |-> h, body |-> b]

\* The requests sent to the server.  A body is read by POST on a key path
\* only and the Peer-Address header on a join path only, so they are varied
\* there and empty elsewhere.
Requests ==
    {Request("POST", KeyPath, "", b) : b \in Bodies}
        \cup {Request(m, KeyPath, "", NoJsonBody) : m \in {"GET", "PUT"}}
        \cup {Request("GET", pa, "", NoJsonBody) : pa \in {KeysPath, OtherPath}}
        \cup {Request("POST", JoinPath, h, NoJsonBody) : h \in {"", PeerAddr}}
        \cup {Request("GET", JoinPath, PeerAddr, NoJsonBody)}

\* A handler goroutine that serves no request.
IdleReq ==
    [pc |-> "idle", method |-> "GET", path |-> OtherPath, header |-> "",
     body |-> NoJsonBody, status |-> 0, respValue |-> 0, readAt |-> 0,
     submitted |-> FALSE, index |-> 0, addVoterCalls |-> 0,
     voterId |-> "", voterAddr |-> ""]

\* The goroutine net/http starts for a request that has just arrived.
NewReq(req) ==
    [IdleReq EXCEPT !.pc = "serving", !.method = req.method,
                    !.path = req.path, !.header = req.header,
                    !.body = req.body]

\* w.WriteHeader(code): the first call sets the status, later ones are
\* ignored by net/http.
WriteHeader(w, code) == IF w.status # 0 THEN w ELSE [w EXCEPT !.status = code]

Done(w) == [w EXCEPT !.pc = "done"]

\* A goroutine is free to take a request when it serves none.
Free(r) == reqs[r].pc \in {"idle", "done"}

\* How many stores into fsm.stateValue have happened on state machine i.
WriteCount(i) == lastApplied[i] + (IF applyPc[i] = "stored" THEN 1 ELSE 0)

\* NewNode with config.Bootstrap: the node starts as the leader of a cluster
\* whose only voter it is.
InitHttpVars ==
    /\ reqs = [r \in Reqs |-> IdleReq]
    /\ voters = {SelfAddr}
    /\ leader = TRUE

\* ServeHTTP, lines 51-53: neither a key nor a join path.
ServeOther(r, req) ==
    /\ Free(r)
    /\ ~Contains(req.path, KeyPath)
    /\ ~Contains(req.path, JoinPath)
    /\ reqs' = [reqs EXCEPT ![r] = Done(WriteHeader(NewReq(req), 400))]
    /\ UNCHANGED <<voters, leader>>
    /\ UNCHANGED fsmVars
    /\ UNCHANGED mainVars

\* handleRequest, line 65: a key path with a method other than POST and GET.
HandleMethodNotAllowed(r, req) ==
    /\ Free(r)
    /\ Contains(req.path, KeyPath)
    /\ req.method \notin {"POST", "GET"}
    /\ reqs' = [reqs EXCEPT ![r] = Done(WriteHeader(NewReq(req), 405))]
    /\ UNCHANGED <<voters, leader>>
    /\ UNCHANGED fsmVars
    /\ UNCHANGED mainVars

\* A faulty handleKeyGet that hands the value out and clears it.
HandleKeyGet_Consume(r, req) ==
    /\ Free(r)
    /\ Contains(req.path, KeyPath)
    /\ req.method = "GET"
    /\ reqs' = [reqs EXCEPT ![r] =
           Done([WriteHeader(NewReq(req), 200) EXCEPT
                    !.respValue = stateValue[Self],
                    !.readAt = WriteCount(Self)])]
    /\ stateValue' = [stateValue EXCEPT ![Self] = 0]
    /\ UNCHANGED <<voters, leader>>
    /\ UNCHANGED <<mutexLocked, applyPc, snapPc, halted, lastApplied, raftLog,
                   snaps, restoreInfo>>
    /\ UNCHANGED mainVars

\* handleKeyGet: 200 and the value read from fsm.stateValue (no lock taken).
HandleKeyGet(r, req) ==
    /\ Free(r)
    /\ Contains(req.path, KeyPath)
    /\ req.method = "GET"
    /\ reqs' = [reqs EXCEPT ![r] =
           Done([WriteHeader(NewReq(req), 200) EXCEPT
                    !.respValue = stateValue[Self],
                    !.readAt = WriteCount(Self)])]
    /\ UNCHANGED <<voters, leader>>
    /\ UNCHANGED fsmVars
    /\ UNCHANGED mainVars

\* handleKeyPost, lines 69-78: the body does not decode: 400.
HandleKeyPostBadRequest(r, req) ==
    /\ Free(r)
    /\ Contains(req.path, KeyPath)
    /\ req.method = "POST"
    /\ DecodeKeyRequest(req.body).err
    /\ reqs' = [reqs EXCEPT ![r] = Done(WriteHeader(NewReq(req), 400))]
    /\ UNCHANGED <<voters, leader>>
    /\ UNCHANGED fsmVars
    /\ UNCHANGED mainVars

\* handleKeyPost, lines 80-92: marshal a "set" event and hand it to
\* raftNode.Apply.  A leader that takes the entry within the timeout appends
\* it to its log; otherwise the future carries an error and nothing is
\* appended.
HandleKeyPostSubmit(r, req, accepted) ==
    /\ Free(r)
    /\ Contains(req.path, KeyPath)
    /\ req.method = "POST"
    /\ ~DecodeKeyRequest(req.body).err
    /\ accepted => (leader /\ Len(raftLog) < MaxLog)
    /\ LET event == [Type |-> "set",
                     Value |-> DecodeKeyRequest(req.body).request.NewValue]
       IN  /\ raftLog' = IF accepted
                         THEN Append(raftLog, MarshalEvent(event))
                         ELSE raftLog
           /\ reqs' = [reqs EXCEPT ![r] =
                  [NewReq(req) EXCEPT
                      !.pc = "waitApply",
                      !.submitted = TRUE,
                      !.index = IF accepted THEN Len(raftLog) + 1 ELSE 0]]
    /\ UNCHANGED <<voters, leader>>
    /\ UNCHANGED <<stateValue, mutexLocked, applyPc, snapPc, halted,
                   lastApplied, snaps, restoreInfo>>
    /\ UNCHANGED mainVars

\* A faulty handleKeyPost that answers 200 as soon as the entry is in the log,
\* without waiting on the future.
HandleKeyPostOK_NoWait(r) ==
    /\ reqs[r].pc = "waitApply"
    /\ reqs[r].index # 0
    /\ reqs' = [reqs EXCEPT ![r] = Done(WriteHeader(@, 200))]
    /\ UNCHANGED <<voters, leader>>
    /\ UNCHANGED fsmVars
    /\ UNCHANGED mainVars

\* handleKeyPost, lines 93 and 98: applyFuture.Error() returns nil once the
\* entry has been committed and fsm.Apply has returned for it: 200.
HandleKeyPostOK(r) ==
    /\ reqs[r].pc = "waitApply"
    /\ reqs[r].index # 0
    /\ lastApplied[Self] >= reqs[r].index
    /\ reqs' = [reqs EXCEPT ![r] = Done(WriteHeader(@, 200))]
    /\ UNCHANGED <<voters, leader>>
    /\ UNCHANGED fsmVars
    /\ UNCHANGED mainVars

\* A faulty handleKeyPost that withdraws its entry from the log when the
\* future carries an error.
HandleKeyPostError_Cancel(r) ==
    /\ reqs[r].pc = "waitApply"
    /\ \/ reqs[r].index = 0
       \/ ~leader /\ lastApplied[Self] < reqs[r].index
    /\ reqs' = [reqs EXCEPT ![r] = Done(WriteHeader(@, 500))]
    /\ raftLog' = IF /\ reqs[r].index # 0
                     /\ reqs[r].index = Len(raftLog)
                     /\ applyPc[Self] = "idle"
                  THEN SubSeq(raftLog, 1, Len(raftLog) - 1)
                  ELSE raftLog
    /\ UNCHANGED <<voters, leader>>
    /\ UNCHANGED <<stateValue, mutexLocked, applyPc, snapPc, halted,
                   lastApplied, snaps, restoreInfo>>
    /\ UNCHANGED mainVars

\* handleKeyPost, lines 93-96: applyFuture.Error() returns an error (the
\* entry was not taken, or leadership was lost before it was applied): 500.
HandleKeyPostError(r) ==
    /\ reqs[r].pc = "waitApply"
    /\ \/ reqs[r].index = 0
       \/ ~leader /\ lastApplied[Self] < reqs[r].index
    /\ reqs' = [reqs EXCEPT ![r] = Done(WriteHeader(@, 500))]
    /\ UNCHANGED <<voters, leader>>
    /\ UNCHANGED fsmVars
    /\ UNCHANGED mainVars

\* raftNode.AddVoter(id, address, 0, 0).Error(): the membership change goes
\* through on a leader, for a server with an ID.
AddVoterSucceeds(id, ok) == ok /\ leader /\ id # ""

\* A faulty handleJoin that does not look at the error of the future and
\* answers 200 whether or not the peer was added.
HandleJoin_IgnoreError(r, req, ok) ==
    /\ Free(r)
    /\ ~Contains(req.path, KeyPath)
    /\ Contains(req.path, JoinPath)
    /\ LET peerAddress == req.header
           w0 == NewReq(req)
           w1 == IF peerAddress = "" THEN WriteHeader(w0, 400) ELSE w0
           w2 == [w1 EXCEPT !.addVoterCalls = @ + 1,
                            !.voterId = peerAddress,
                            !.voterAddr = peerAddress]
           joined == AddVoterSucceeds(peerAddress, ok)
       IN  /\ voters' = IF joined THEN voters \cup {peerAddress} ELSE voters
           /\ reqs' = [reqs EXCEPT ![r] = Done(WriteHeader(w2, 200))]
    /\ UNCHANGED leader
    /\ UNCHANGED fsmVars
    /\ UNCHANGED mainVars

\* handleJoin: a missing Peer-Address writes 400 and does not return; AddVoter
\* is called with the header's value as ID and as address; its error writes
\* 500, its success 200.
HandleJoin(r, req, ok) ==
    /\ Free(r)
    /\ ~Contains(req.path, KeyPath)
    /\ Contains(req.path, JoinPath)
    /\ LET peerAddress == req.header
           w0 == NewReq(req)
           w1 == IF peerAddress = "" THEN WriteHeader(w0, 400) ELSE w0
           w2 == [w1 EXCEPT !.addVoterCalls = @ + 1,
                            !.voterId = peerAddress,
                            !.voterAddr = peerAddress]
           joined == AddVoterSucceeds(peerAddress, ok)
       IN  /\ voters' = IF joined THEN voters \cup {peerAddress} ELSE voters
           /\ reqs' = [reqs EXCEPT ![r] =
                  Done(WriteHeader(w2, IF joined THEN 200 ELSE 500))]
    /\ UNCHANGED leader
    /\ UNCHANGED fsmVars
    /\ UNCHANGED mainVars

\* ServeHTTP: route on the path, then on the method.
ServeHTTP(r, req) ==
    \/ ServeOther(r, req)
    \/ HandleMethodNotAllowed(r, req)
    \/ HandleKeyGet(r, req)
    \/ HandleKeyPostBadRequest(r, req)
    \/ \E accepted \in BOOLEAN : HandleKeyPostSubmit(r, req, accepted)
    \/ \E ok \in BOOLEAN : HandleJoin(r, req, ok)

\* The engine loses the leadership, which takes a cluster of several voters.
EngineStepDown ==
    /\ leader
    /\ Cardinality(voters) > 1
    /\ leader' = FALSE
    /\ UNCHANGED <<reqs, voters>>
    /\ UNCHANGED fsmVars
    /\ UNCHANGED mainVars

\* The engine wins an election.
EngineElect ==
    /\ ~leader
    /\ leader' = TRUE
    /\ UNCHANGED <<reqs, voters>>
    /\ UNCHANGED fsmVars
    /\ UNCHANGED mainVars

Init == InitFsmVars /\ InitHttpVars /\ InitMainServing

Next ==
    \/ \E r \in Reqs, req \in Requests : ServeHTTP(r, req)
    \/ \E r \in Reqs : HandleKeyPostOK(r) \/ HandleKeyPostError(r)
    \/ ApplyLock(Self) \/ ApplyStore(Self) \/ ApplyReturn(Self)
    \/ EngineStepDown
    \/ EngineElect

Spec == Init /\ [][Next]_vars

\* ------------------------------------------- the state machine on its own

\* The consensus engine commits one more entry.
EngineCommit(d) ==
    /\ Len(raftLog) < MaxLog
    /\ raftLog' = Append(raftLog, d)
    /\ UNCHANGED <<stateValue, mutexLocked, applyPc, snapPc, halted,
                   lastApplied, snaps, restoreInfo>>
    /\ UNCHANGED httpVars
    /\ UNCHANGED mainVars

InitFsm == InitFsmVars /\ InitHttpVars /\ InitMainServing

NextFsm ==
    \/ \E d \in EntryData : EngineCommit(d)
    \/ \E i \in Inst : Apply(i)
    \/ \E i \in Inst : Snapshot(i)

SpecFsm == InitFsm /\ [][NextFsm]_vars

\* A thread that holds the lock is runnable and the scheduler runs it.
SpecFsmFair ==
    /\ SpecFsm
    /\ \A i \in Inst :
           /\ WF_vars(ApplyStore(i))
           /\ WF_vars(ApplyReturn(i))
           /\ WF_vars(SnapshotReturn(i))

\* ---------------------------------------- snapshots taken and restored

\* The entries this program itself submits (handleKeyPost).
SetEntries == {EventBytes("set", v) : v \in Values}

\* The state machine snapshots are taken of, and the one started from them.
Origin == 1

Replica == 2

NextSnap ==
    \/ \E d \in SetEntries : EngineCommit(d)
    \/ \E i \in Inst : ApplyLock(i) \/ ApplyStore(i) \/ ApplyReturn(i)
    \/ Snapshot(Origin)
    \/ \E k \in 1..Len(snaps), writeOk, closeOk \in BOOLEAN :
           Persist(k, writeOk, closeOk)
    \/ \E k \in 1..Len(snaps) :
           \E bytes \in {snaps[k].sink.data, GarbageSnapshotBytes} :
               Restore(Replica, k, bytes)

SpecSnap == InitFsm /\ [][NextSnap]_vars

\* --------------------------------------------------- main on its own

InitJoin == InitFsmVars /\ InitHttpVars /\ InitMain

NextJoin ==
    \/ MainStartJoin
    \/ MainServe
    \/ ServerFatal
    \/ \E outcome \in JoinOutcomes : JoinAttempt(outcome)
    \/ JoinBackoff

SpecJoin == InitJoin /\ [][NextJoin]_vars

\* time.Sleep returns and the goroutine is scheduled again.
SpecJoinFair == SpecJoin /\ WF_vars(JoinBackoff)

\* ------------------------------------------- resolving the configuration

InitConfig == InitFsmVars /\ InitHttpVars /\ InitMainResolve

NextConfig ==
    \/ MainResolve
    \/ \E ok \in BOOLEAN : MainNewNode(ok)

SpecConfig == InitConfig /\ [][NextConfig]_vars

\* ------------------------------------------------------------ properties

\* The value a state machine holds once the first n entries, all of them
\* "set" entries, have been applied to a fresh instance.
ValueAfter(n) == IF n = 0 THEN 0 ELSE UnmarshalEvent(raftLog[n]).e.Value

IsSetEntry(data) ==
    LET u == UnmarshalEvent(data) IN ~u.err /\ u.e.Type = "set"

\* A restore of snapshot k that has just run on state machine i, which was
\* fresh, from the bytes Persist left in the snapshot's sink.
FreshRestoreStep(i, k) ==
    /\ restoreInfo[i] = NoRestore
    /\ lastApplied[i] = 0
    /\ stateValue[i] = 0
    /\ restoreInfo'[i].calls = 1
    /\ restoreInfo'[i].snap = k
    /\ ~restoreInfo'[i].err

\* C1: a snapshot taken while the value is v, persisted to a sink and restored
\* on a fresh state machine leaves that state machine holding v, whatever was
\* applied to the original after the snapshot was taken.
C1_RoundTrip ==
    [][\A i \in Inst : \A k \in 1..Len(snaps) :
           FreshRestoreStep(i, k) => stateValue'[i] = snaps[k].f.stateValue]_vars

\* C3: two state machines that start fresh and are fed the same committed
\* entries in the same order hold the same value after every prefix: whenever
\* both have applied the same number of entries their values agree.
C3_Determinism ==
    \A i, j \in Inst :
        (/\ lastApplied[i] = lastApplied[j]
         /\ applyPc[i] # "stored"
         /\ applyPc[j] # "stored")
            => stateValue[i] = stateValue[j]

\* Both state machines have applied the same two entries, which differ, and
\* hold the second one's value.
C3_Witness ==
    /\ lastApplied[1] = 2
    /\ lastApplied[2] = 2
    /\ raftLog[1] # raftLog[2]
    /\ stateValue[1] = 1
    /\ stateValue[2] = 1

\* C7: an entry that is not a "set" entry, or does not deserialize, halts the
\* state machine: it is never passed over (every applied entry is a "set"
\* entry), and a halted state machine stands at such an entry with its value
\* that of the last entry applied before it and with Apply not holding the
\* lock.
C7_BadEntryHalts ==
    \A i \in Inst :
        /\ \A n \in 1..lastApplied[i] : IsSetEntry(raftLog[n])
        /\ halted[i] =>
               /\ lastApplied[i] < Len(raftLog)
               /\ ~IsSetEntry(NextEntry(i))
               /\ applyPc[i] = "idle"
               /\ mutexLocked[i] => snapPc[i] = "locked"
               /\ stateValue[i] = ValueAfter(lastApplied[i])

\* A state machine that applied "set 1" and then halted at the next entry,
\* still holding 1.
C7_Witness ==
    \E i \in Inst :
        /\ halted[i]
        /\ lastApplied[i] = 1
        /\ stateValue[i] = 1
        /\ ~mutexLocked[i]

\* C10: Persist is transactional.  It returns an error exactly when the write
\* or the close failed, and then the sink has been cancelled; when it returns
\* nil the sink holds the whole snapshot, was closed exactly once and was
\* never cancelled; no sink is left torn and not cancelled.
C10_PersistTransactional ==
    \A k \in 1..Len(snaps) :
        LET s == snaps[k].sink
        IN  /\ snaps[k].persist = "none" => s = EmptySink
            /\ snaps[k].persist = "err" <=>
                   (s.written = "partial" \/ (s.closeCalls = 1 /\ ~s.closed))
            /\ snaps[k].persist = "err" => s.cancelCalls = 1
            /\ snaps[k].persist = "ok" =>
                   /\ s.written = "full"
                   /\ s.closed
                   /\ s.closeCalls = 1
                   /\ s.cancelCalls = 0
            /\ s.cancelCalls = 0 => s.written # "partial"
            /\ s.closeCalls <= 1

\* A Persist whose write went through and whose close failed: the sink was
\* closed once and then cancelled.
C10_Witness ==
    \E k \in 1..Len(snaps) :
        /\ snaps[k].persist = "err"
        /\ snaps[k].sink.written = "full"
        /\ snaps[k].sink.closeCalls = 1
        /\ snaps[k].sink.cancelCalls = 1

IsKeyPost(w) == w.method = "POST" /\ Contains(w.path, KeyPath)

IsKeyGet(w) == w.method = "GET" /\ Contains(w.path, KeyPath)

\* C2: a POST /join without a Peer-Address header is answered 400 and
\* AddVoter is not called for it.
C2_JoinWithoutPeerAddress ==
    \A r \in Reqs :
        (/\ reqs[r].pc = "done"
         /\ reqs[r].method = "POST"
         /\ reqs[r].path = JoinPath
         /\ reqs[r].header = "")
            => (reqs[r].status = 400 /\ reqs[r].addVoterCalls = 0)

\* C4: a POST /key is answered 200 only once its "set v" entry is in the log
\* and has been applied to the local state machine, and a GET /key that reads
\* while that entry is the last write returns v.
C4_ReadAfterWrite ==
    \A p \in Reqs :
        (IsKeyPost(reqs[p]) /\ reqs[p].pc = "done" /\ reqs[p].status = 200)
            => /\ reqs[p].index \in 1..lastApplied[Self]
               /\ raftLog[reqs[p].index]
                      = EventBytes("set", reqs[p].body.newValue)
               /\ \A g \in Reqs :
                      (/\ IsKeyGet(reqs[g])
                       /\ reqs[g].pc = "done"
                       /\ reqs[g].readAt = reqs[p].index)
                          => reqs[g].respValue = reqs[p].body.newValue

\* On a cluster of one, a POST /key of 1 was answered 200 and a GET /key that
\* read with no write after it returned 1.
C4_Witness ==
    /\ voters = {SelfAddr}
    /\ \E p, g \in Reqs :
           /\ IsKeyPost(reqs[p])
           /\ reqs[p].pc = "done"
           /\ reqs[p].status = 200
           /\ reqs[p].body.newValue = 1
           /\ IsKeyGet(reqs[g])
           /\ reqs[g].pc = "done"
           /\ reqs[g].readAt = reqs[p].index
           /\ reqs[g].respValue = 1

\* C5: a POST /key whose body is not valid JSON is answered 400 and hands no
\* entry to the consensus engine.
C5_BadJsonRejected ==
    \A r \in Reqs :
        (IsKeyPost(reqs[r]) /\ reqs[r].pc # "idle"
             /\ ~IsValidJSON(reqs[r].body))
            => (/\ reqs[r].pc = "done"
                /\ reqs[r].status = 400
                /\ ~reqs[r].submitted)

\* A GET /key has just been served by goroutine r.
GetStep(r) ==
    /\ reqs'[r] # reqs[r]
    /\ reqs'[r].pc = "done"
    /\ IsKeyGet(reqs'[r])

\* C6: GET /key answers 200 with the current value, changes neither the
\* value nor the log nor the membership, and returns what every other GET
\* returned that read after the same number of writes.
C6_GetKeyReadOnly ==
    [][\A r \in Reqs :
           GetStep(r) =>
               /\ reqs'[r].status = 200
               /\ reqs'[r].respValue = stateValue[Self]
               /\ stateValue' = stateValue
               /\ raftLog' = raftLog
               /\ lastApplied' = lastApplied
               /\ voters' = voters
               /\ \A g \in Reqs \ {r} :
                      (/\ IsKeyGet(reqs[g])
                       /\ reqs[g].pc = "done"
                       /\ reqs[g].readAt = reqs'[r].readAt)
                          => reqs[g].respValue = reqs'[r].respValue]_vars

\* Two GET /key served after the same write both returned 1.
C6_Witness ==
    \E g, h \in Reqs :
        /\ g # h
        /\ IsKeyGet(reqs[g]) /\ reqs[g].pc = "done"
        /\ IsKeyGet(reqs[h]) /\ reqs[h].pc = "done"
        /\ reqs[g].status = 200
        /\ reqs[g].readAt = reqs[h].readAt
        /\ reqs[g].readAt >= 1
        /\ reqs[g].respValue = 1
        /\ reqs[h].respValue = 1

\* The join goroutine has just had a request fail.
JoinFailedStep ==
    /\ joinPc = "request"
    /\ joinPc' # "request"
    /\ joinLast'.outcome # "200"

\* C8: a failed join request (no response, or a status other than 200) sends
\* the goroutine to its backoff sleep and leaves main and the server as they
\* were; and, as long as the process runs, the sleep is followed by another
\* request, however many requests have failed before.
C8_JoinRetriesForever ==
    /\ [][JoinFailedStep => (joinPc' = "sleep" /\ mainPc' = mainPc)]_vars
    /\ (Running /\ joinPc = "sleep") ~> (joinPc = "request" \/ ~Running)

\* Three requests have failed and, with the server up, a fourth is about to
\* be sent.
C8_Witness ==
    /\ joinAttempts >= 3
    /\ joinPc = "request"
    /\ joinLast.outcome = "neterr"
    /\ mainPc = "serving"

\* C9: a known path with an unsupported method is answered 405 and calls
\* nothing (no AddVoter for a non-POST /join, no Apply for a /key that is
\* neither GET nor POST); any other path is answered 400 and calls nothing.
C9_MethodAndPathRouting ==
    \A r \in Reqs :
        reqs[r].pc = "done" =>
            /\ (reqs[r].path = JoinPath /\ reqs[r].method # "POST")
                   => (reqs[r].status = 405 /\ reqs[r].addVoterCalls = 0)
            /\ (reqs[r].path = KeyPath /\ reqs[r].method \notin {"GET", "POST"})
                   => (reqs[r].status = 405 /\ ~reqs[r].submitted)
            /\ reqs[r].path \notin {KeyPath, JoinPath}
                   => /\ reqs[r].status = 400
                      /\ ~reqs[r].submitted
                      /\ reqs[r].addVoterCalls = 0

\* How many entries of the aggregate error name a configuration point.
Entries(errors, point) ==
    Cardinality({n \in 1..Len(errors) : errors[n] = point})

\* The configuration points that are wrong in the raw input: a bind address
\* that is no IP address and resolves to none, a port outside 1..65535, a
\* relative data directory with no working directory to resolve it against.
FailingPoints(raw, wd) ==
    {pt \in {"bind-address", "raft-port", "http-port", "data-dir"} :
        \/ pt = "bind-address" /\ raw.BindAddress \in {MalformedTemplate, "localhost"}
        \/ pt = "raft-port" /\ raw.RaftPort \notin 1..65535
        \/ pt = "http-port" /\ raw.HTTPPort \notin 1..65535
        \/ pt = "data-dir" /\ ~IsAbs(raw.DataDir) /\ wd = NoWorkDir}

\* C11: resolveConfig reports every failing configuration point: the
\* aggregate error holds exactly one entry for each failing point and none
\* for the others, and no Config is returned when a point fails.
C11_AllErrorsReported ==
    mainPc # "resolve" =>
        /\ \A pt \in {"bind-address", "raft-port", "http-port", "data-dir"} :
               Entries(configErrors, pt)
                   = IF pt \in FailingPoints(rawConfig, workDir) THEN 1 ELSE 0
        /\ FailingPoints(rawConfig, workDir) # {} => config = NilConfig

\* C12: a Config that resolveConfig returns has both ports in 1..65535, and a
\* port outside that range is reported as an error of its configuration point.
C12_PortsInRange ==
    mainPc # "resolve" =>
        /\ config # NilConfig =>
               /\ config.RaftAddress.Port \in 1..65535
               /\ config.HTTPAddress.Port \in 1..65535
        /\ rawConfig.RaftPort \notin 1..65535
               => Entries(configErrors, "raft-port") >= 1
        /\ rawConfig.HTTPPort \notin 1..65535
               => Entries(configErrors, "http-port") >= 1

\* C13: every access to fsm.stateValue is made under fsm.mutex: a store into
\* it is made by Apply between its Lock and its Unlock, and a GET /key reads
\* it at a moment when no other thread holds the lock, so never between the
\* Lock and the Unlock of an Apply that writes it.
C13_AccessUnderLock ==
    /\ [][stateValue' # stateValue
              => (mutexLocked[Self] /\ applyPc[Self] = "locked")]_vars
    /\ [][\A r \in Reqs : GetStep(r) => ~mutexLocked[Self]]_vars

\* A POST /key has just been answered 500 by goroutine r.
ErrorStep(r) ==
    /\ reqs[r].pc = "waitApply"
    /\ reqs'[r].pc = "done"
    /\ reqs'[r].status = 500

JoinStep(r) ==
    /\ reqs'[r] # reqs[r]
    /\ reqs'[r].pc = "done"
    /\ reqs'[r].method = "POST"
    /\ reqs'[r].path = JoinPath
    /\ reqs'[r].header # ""

\* C16: a POST /join whose Peer-Address is a calls AddVoter exactly once, with
\* a as the server's ID and as its address; it answers 200 when the peer has
\* become a voter and 500 when the membership is as it was; and neither
\* outcome stops the node: nothing panics, main goes on, and the value, the
\* log and the leadership are untouched.
C16_JoinAddsVoter ==
    [][\A r \in Reqs :
           JoinStep(r) =>
               /\ reqs'[r].addVoterCalls = 1
               /\ reqs'[r].voterId = reqs'[r].header
               /\ reqs'[r].voterAddr = reqs'[r].header
               /\ \/ /\ reqs'[r].status = 200
                     /\ voters' = voters \cup {reqs'[r].header}
                  \/ /\ reqs'[r].status = 500
                     /\ voters' = voters
               /\ halted' = halted
               /\ mainPc' = mainPc
               /\ mainPc # "exited"
               /\ stateValue' = stateValue
               /\ raftLog' = raftLog
               /\ leader' = leader]_vars

\* One POST /join for a peer was answered 500 with the peer not added, and a
\* later one for the same peer was answered 200: the peer is a voter.
C16_Witness ==
    \E r, q \in Reqs :
        /\ reqs[r].pc = "done" /\ reqs[q].pc = "done"
        /\ reqs[r].method = "POST" /\ reqs[q].method = "POST"
        /\ reqs[r].path = JoinPath /\ reqs[q].path = JoinPath
        /\ reqs[r].header = PeerAddr /\ reqs[q].header = PeerAddr
        /\ reqs[r].status = 500
        /\ reqs[q].status = 200
        /\ reqs[r].addVoterCalls = 1
        /\ voters = {SelfAddr, PeerAddr}

\* The join goroutine has just had the answer to a request, or none.
AttemptStep == joinPc = "request" /\ joinPc' # "request"

\* C15: every join request is a POST to /join on the configured peer with
\* this node's own Raft address in Peer-Address; a request answered 200 ends
\* the loop; and once the loop has ended, which only a 200 does, no further
\* request is sent.
C15_JoinStopsAtFirstSuccess ==
    /\ [][AttemptStep =>
              /\ joinLast'.sent
              /\ joinLast'.host = config.JoinAddress
              /\ joinLast'.path = "/join"
              /\ joinLast'.header = config.RaftAddress
              /\ joinLast'.outcome = "200" => joinPc' = "done"]_vars
    /\ [][joinPc = "done" =>
              /\ joinPc' = "done"
              /\ joinAttempts' = joinAttempts
              /\ joinLast' = joinLast]_vars
    /\ [](joinPc = "done" => joinLast.outcome = "200")

\* Two requests failed, the third was answered 200 and the loop has ended.
C15_Witness ==
    /\ joinPc = "done"
    /\ joinAttempts = 3
    /\ joinLast.outcome = "200"
    /\ joinLast.header = SelfAddr

\* C17: the join goroutine runs, and a join request is sent, only on a node
\* that was given a join target and was not started with the bootstrap flag.
C17_JoinOnlyWithoutBootstrap ==
    /\ joinPc # "none" => config.JoinAddress # ""
    /\ joinLast.sent => (config.JoinAddress # "" /\ ~config.Bootstrap)

\* The thread of state machine i that is inside a critical section.
InApply(i) == applyPc[i] \in {"locked", "stored"}

InSnapshot(i) == snapPc[i] = "locked"

\* C18: fsm.mutex is held only inside the critical section of Apply or of
\* Snapshot, by one of them at a time; the thread that holds it waits for
\* nothing (its next step is enabled), its section is one store or one read
\* followed by the unlock, and while the process runs a held lock is always
\* released.
C18_LockHeldBriefly ==
    /\ [](\A i \in Inst :
              /\ mutexLocked[i] <=> (InApply(i) \/ InSnapshot(i))
              /\ ~(InApply(i) /\ InSnapshot(i))
              /\ (mutexLocked[i] /\ ~halted[i]) =>
                     ENABLED (ApplyStore(i) \/ ApplyReturn(i)
                                  \/ SnapshotReturn(i)))
    /\ [][\A i \in Inst :
              /\ (applyPc[i] = "stored" /\ applyPc'[i] # "stored")
                     => ~mutexLocked'[i]
              /\ (InSnapshot(i) /\ ~InSnapshot(i)')
                     => ~mutexLocked'[i]]_vars
    /\ \A i \in Inst :
           (mutexLocked[i] /\ ~halted[i]) ~> (~mutexLocked[i] \/ halted[i])

\* Snapshot holds the lock of a state machine whose Apply has a "set" entry
\* to apply and waits for the lock.
C18_Witness ==
    \E i \in Inst :
        /\ mutexLocked[i]
        /\ InSnapshot(i)
        /\ ~halted[i]
        /\ HasNextEntry(i)
        /\ IsSetEntry(NextEntry(i))

\* C19: last entry wins.  At rest a state machine holds the value of the last
\* entry applied to it, 0 when there is none; one that was restored from a
\* snapshot and has applied nothing since holds the value the snapshot was
\* taken of.
C19_LastEntryWins ==
    \A i \in Inst :
        applyPc[i] # "stored" =>
            /\ stateValue[i] = ValueAfter(lastApplied[i])
            /\ (/\ restoreInfo[i].calls > 0
                /\ ~restoreInfo[i].err
                /\ lastApplied[i] = snaps[restoreInfo[i].snap].index)
                   => stateValue[i] = snaps[restoreInfo[i].snap].f.stateValue

\* fsm.Restore has just run on state machine i with snapshot k.
RestoreStep(i, k) ==
    /\ restoreInfo'[i].calls = restoreInfo[i].calls + 1
    /\ restoreInfo'[i].snap = k

\* C20: Restore is all or nothing.  When the payload deserializes the value
\* becomes the snapshot's, whatever it was; when it does not, Restore returns
\* the error and the value and the applied index stay as they were.
C20_RestoreAllOrNothing ==
    [][\A i \in Inst : \A k \in 1..Len(snaps) :
           RestoreStep(i, k) =>
               IF restoreInfo'[i].err
               THEN /\ stateValue'[i] = stateValue[i]
                    /\ lastApplied'[i] = lastApplied[i]
               ELSE stateValue'[i] = snaps[k].f.stateValue]_vars

====
